---- MODULE Spec2Model ----
(***************************************************************************)
(* Model of the gcp-bootstrap program: main() runs checkGcloud,            *)
(* loadConfig, confirmExecution and then a fixed sequence of provisioning  *)
(* steps, each a thin wrapper around one or two gcloud invocations.        *)
(*                                                                         *)
(* Strings are sequences of tokens (words, or characters for the operator's*)
(* input line); strings.Contains is contiguous sub-sequence search,        *)
(* strings.Join is concatenation, fmt.Sprintf of single tokens is string   *)
(* concatenation.  A Go error is its message text; nil is the empty text.  *)
(***************************************************************************)
EXTENDS Integers, Sequences, FiniteSets, TLC

\* ------------------------------------------------------------------ bounds
MaxRoles == 2
MaxRuns == 2

\* ------------------------------------------------------- string helpers
Nil == <<>>

Contains(s, sub) ==
    \E i \in 0..(Len(s) - Len(sub)) : SubSeq(s, i + 1, i + Len(sub)) = sub

Whitespace == {" ", "\n", "\t", "\r"}

RECURSIVE TrimLeft(_)
TrimLeft(s) ==
    IF s # <<>> /\ Head(s) \in Whitespace THEN TrimLeft(Tail(s)) ELSE s

RECURSIVE TrimRight(_)
TrimRight(s) ==
    IF s # <<>> /\ s[Len(s)] \in Whitespace
    THEN TrimRight(SubSeq(s, 1, Len(s) - 1))
    ELSE s

TrimSpace(s) == TrimRight(TrimLeft(s))

LowerTok(t) ==
    CASE t = "Y" -> "y"
      [] t = "E" -> "e"
      [] t = "S" -> "s"
      [] t = "N" -> "n"
      [] t = "O" -> "o"
      [] t = "True" -> "true"
      [] t = "TRUE" -> "true"
      [] t = "False" -> "false"
      [] OTHER -> t

ToLower(s) == [i \in DOMAIN s |-> LowerTok(s[i])]

\* strings.Split(s, sep) for a one-token separator: the pieces between the
\* separators, empty pieces included; an empty s gives one empty piece.
RECURSIVE Split(_, _)
Split(s, sep) ==
    IF \A i \in DOMAIN s : s[i] # sep
    THEN <<s>>
    ELSE LET k == CHOOSE i \in DOMAIN s :
                      s[i] = sep /\ \A j \in 1..(i - 1) : s[j] # sep
         IN <<SubSeq(s, 1, k - 1)>> \o Split(SubSeq(s, k + 1, Len(s)), sep)

\* ------------------------------------------------ sentinels of the source
AlreadyExists == <<"already", "exists">>
AlreadyAssociated == <<"already", "associated">>
NotFound == <<"not", "found">>
NoPermission == <<"does", "not", "have", "permission">>
MustBeAssociated == <<"must", "be", "associated", "with", "a", "billing", "account">>

\* ------------------------------------------------ the configuration file
PlaceholderBilling == "0X0X0X-XXXXXX-XXXXXX"
PlaceholderProject == "your-unique-project-id"
PlaceholderBucket == "your-unique-tfstate-bucket-name-xyz"

\* The example values of config.yaml.example that loadConfig does not test for.
ExampleProjectName == <<"My", "Awesome", "App", "Project">>
ExampleRegion == "europe-west1"
ExampleServiceAccountName == "terraform-admin"
ExampleRoles == <<"roles/owner">>

RoleNames == <<"roles/owner", "roles/storage.admin", "roles/viewer">>

RoleLists == {SubSeq(RoleNames, 1, n) : n \in 0..MaxRoles}

\* A document as yaml.Unmarshal sees it: the keys of config.yaml, plus a key
\* carrying a service-account email that the Config struct does not bind.
BaseDoc ==
    [file |-> "ok",
     billing_account_id |-> "ACCT-1",
     organization_id |-> "",
     project_id |-> "proj-1",
     project_name |-> <<"My", "App">>,
     project_region |-> "europe-west1",
     tf_state_bucket_name |-> "tfstate-1",
     tf_service_account_name |-> "terraform-admin",
     generate_tf_sa_key |-> FALSE,
     tf_sa_key_path |-> "keys/tf.json",
     enable_apis |-> <<"iam.googleapis.com">>,
     tf_service_account_project_roles |-> <<"roles/owner">>,
     tf_service_account_billing_role |-> "roles/billing.user",
     tf_service_account_email |-> ""]

ValidDocs ==
    {[BaseDoc EXCEPT !.organization_id = org,
                     !.project_name = pn,
                     !.generate_tf_sa_key = gk,
                     !.enable_apis = apis,
                     !.tf_service_account_project_roles = roles,
                     !.tf_service_account_billing_role = br] :
        org \in {"", "123456789012"},
        pn \in {<<"My", "App">>, <<"already", "exists">>},
        gk \in BOOLEAN,
        apis \in {<<>>, <<"iam.googleapis.com", "storage-api.googleapis.com">>},
        roles \in RoleLists \ {<<>>},
        br \in {"", "roles/billing.user"}}
    \cup {[BaseDoc EXCEPT !.tf_service_account_email = "someone@else.example"],
          [BaseDoc EXCEPT !.project_name = ExampleProjectName],
          [BaseDoc EXCEPT !.project_id = "proj-2",
                          !.tf_service_account_name = "tf-deployer",
                          !.tf_service_account_email =
                              "tf-deployer@proj-2.iam.example.com"]}

InvalidDocs ==
    {[BaseDoc EXCEPT !.billing_account_id = v] : v \in {"", PlaceholderBilling}}
    \cup {[BaseDoc EXCEPT !.project_id = v] : v \in {"", PlaceholderProject}}
    \cup {[BaseDoc EXCEPT !.project_name = <<>>],
          [BaseDoc EXCEPT !.project_region = ""],
          [BaseDoc EXCEPT !.tf_service_account_name = ""],
          [BaseDoc EXCEPT !.tf_service_account_project_roles = <<>>]}
    \cup {[BaseDoc EXCEPT !.tf_state_bucket_name = v] : v \in {"", PlaceholderBucket}}
    \cup {[BaseDoc EXCEPT !.file = f] : f \in {"absent", "unreadable", "malformed"}}

Docs == ValidDocs \cup InvalidDocs

NoConfig == [loaded |-> FALSE]

\* yaml.Unmarshal into Config: every bound key is copied, the derived email
\* field (yaml:"-") stays at its zero value.
Unmarshal(doc) ==
    [loaded |-> TRUE,
     BillingAccountID |-> doc.billing_account_id,
     OrganizationID |-> doc.organization_id,
     ProjectID |-> doc.project_id,
     ProjectName |-> doc.project_name,
     ProjectRegion |-> doc.project_region,
     TFStateBucketName |-> doc.tf_state_bucket_name,
     TFServiceAccountName |-> doc.tf_service_account_name,
     GenerateTFSAKey |-> doc.generate_tf_sa_key,
     TFSAKeyPath |-> doc.tf_sa_key_path,
     EnableAPIs |-> doc.enable_apis,
     TFServiceAccountProjectRoles |-> doc.tf_service_account_project_roles,
     TFServiceAccountBillingRole |-> doc.tf_service_account_billing_role,
     TFServiceAccountEmail |-> ""]

DeriveEmailSwapped(name, projectID) ==
    projectID \o "@" \o name \o ".iam.gserviceaccount.com"

DeriveEmail(name, projectID) ==
    name \o "@" \o projectID \o ".iam.gserviceaccount.com"

\* The warnings loadConfig logs for optional settings left empty.
loadWarnings(c) ==
    (IF Len(c.EnableAPIs) = 0 THEN {"enable_apis"} ELSE {})
    \cup (IF c.TFServiceAccountBillingRole = ""
          THEN {"tf_service_account_billing_role"} ELSE {})

Rejected(kind) == [cfg |-> NoConfig, err |-> kind, warn |-> {}]

loadConfigKeepsPlaceholders(doc) ==
    IF doc.file # "ok" \/ doc.billing_account_id = "" \/ doc.project_id = ""
       \/ doc.project_name = <<>> \/ doc.project_region = ""
       \/ doc.tf_state_bucket_name = "" \/ doc.tf_service_account_name = ""
       \/ doc.tf_service_account_project_roles = <<>>
    THEN Rejected("rejected")
    ELSE [cfg |-> [Unmarshal(doc) EXCEPT !.TFServiceAccountEmail =
                       DeriveEmail(doc.tf_service_account_name, doc.project_id)],
          err |-> "",
          warn |-> loadWarnings(Unmarshal(doc))]

loadConfigSkipsRegion(doc) ==
    IF doc.file = "absent" THEN Rejected("not found")
    ELSE IF doc.file = "unreadable" THEN Rejected("read")
    ELSE IF doc.file = "malformed" THEN Rejected("parse")
    ELSE LET c == Unmarshal(doc) IN
      IF c.BillingAccountID = "" \/ c.BillingAccountID = PlaceholderBilling
        THEN Rejected("billing_account_id")
      ELSE IF c.ProjectID = "" \/ c.ProjectID = PlaceholderProject
        THEN Rejected("project_id")
      ELSE IF c.ProjectName = <<>>
        THEN Rejected("project_name")
      ELSE IF c.TFStateBucketName = "" \/ c.TFStateBucketName = PlaceholderBucket
        THEN Rejected("tf_state_bucket_name")
      ELSE IF c.TFServiceAccountName = ""
        THEN Rejected("tf_service_account_name")
      ELSE IF Len(c.TFServiceAccountProjectRoles) = 0
        THEN Rejected("tf_service_account_project_roles")
      ELSE [cfg |-> [c EXCEPT !.TFServiceAccountEmail =
                                  DeriveEmail(c.TFServiceAccountName, c.ProjectID)],
            err |-> "",
            warn |-> loadWarnings(c)]

\* loadConfig: [cfg, err, warn]; err is "" on success, else the kind of
\* failure: "not found", "read", "parse", or the field that failed validation.
loadConfig(doc) ==
    IF doc.file = "absent" THEN Rejected("not found")
    ELSE IF doc.file = "unreadable" THEN Rejected("read")
    ELSE IF doc.file = "malformed" THEN Rejected("parse")
    ELSE LET c == Unmarshal(doc) IN
      IF c.BillingAccountID = "" \/ c.BillingAccountID = PlaceholderBilling
        THEN Rejected("billing_account_id")
      ELSE IF c.ProjectID = "" \/ c.ProjectID = PlaceholderProject
        THEN Rejected("project_id")
      ELSE IF c.ProjectName = <<>>
        THEN Rejected("project_name")
      ELSE IF c.ProjectRegion = ""
        THEN Rejected("project_region")
      ELSE IF c.TFStateBucketName = "" \/ c.TFStateBucketName = PlaceholderBucket
        THEN Rejected("tf_state_bucket_name")
      ELSE IF c.TFServiceAccountName = ""
        THEN Rejected("tf_service_account_name")
      ELSE IF Len(c.TFServiceAccountProjectRoles) = 0
        THEN Rejected("tf_service_account_project_roles")
      ELSE [cfg |-> [c EXCEPT !.TFServiceAccountEmail =
                                  DeriveEmail(c.TFServiceAccountName, c.ProjectID)],
            err |-> "",
            warn |-> loadWarnings(c)]

\* ------------------------------------------- the gcloud tool (environment)
\* What one invocation of the tool gives back to the process: exit status,
\* stdout and stderr.
Ok(out) == [ok |-> TRUE, out |-> out, stderr |-> <<>>]
Fail(stderr) == [ok |-> FALSE, out |-> <<>>, stderr |-> stderr]

StderrConflict == <<"ERROR:", "Resource">> \o AlreadyExists
StderrAssociated == <<"ERROR:", "project", "is">> \o AlreadyAssociated
StderrNotFound == <<"ERROR:", "resource">> \o NotFound
StderrPermission == <<"ERROR:", "caller">> \o NoPermission
StderrNoBilling == <<"ERROR:", "project">> \o MustBeAssociated
StderrOther == <<"ERROR:", "internal", "error">>

OtherAccount == "ACCT-OTHER"

\* The remote project state the tool reads and changes.
FreshCloud ==
    [project |-> FALSE, billing |-> "", sa |-> FALSE, bucket |-> FALSE,
     versioning |-> FALSE]

InitClouds ==
    {FreshCloud,
     [FreshCloud EXCEPT !.project = TRUE],
     [FreshCloud EXCEPT !.project = TRUE, !.billing = OtherAccount],
     [FreshCloud EXCEPT !.project = TRUE, !.billing = "ACCT-1"],
     [FreshCloud EXCEPT !.project = TRUE, !.billing = "ACCT-1", !.sa = TRUE],
     [FreshCloud EXCEPT !.project = TRUE, !.billing = "ACCT-1", !.bucket = TRUE],
     [FreshCloud EXCEPT !.project = TRUE, !.bucket = TRUE, !.versioning = TRUE],
     [project |-> TRUE, billing |-> "ACCT-1", sa |-> TRUE, bucket |-> TRUE,
      versioning |-> TRUE]}

AuthListResults ==
    {Ok(<<"user@example.com", "\n">>), Ok(<<>>), Fail(StderrOther)}

ConfigSetResults == {Ok(<<>>), Fail(StderrOther)}

ProjectsListResults(cl, projectID) ==
    {IF cl.project THEN Ok(<<projectID, "\n">>) ELSE Ok(<<>>),
     Fail(StderrPermission)}

ProjectsCreateResults(cl) ==
    IF cl.project THEN {Fail(StderrConflict)}
    ELSE {Ok(<<>>), Fail(StderrPermission)}

BillingDescribeResults(cl) ==
    IF ~cl.project THEN {Fail(StderrNotFound)}
    ELSE {IF cl.billing = "" THEN Ok(<<"\n">>)
          ELSE Ok(<<"billingAccounts", "/", cl.billing, "\n">>),
          Fail(StderrPermission), Fail(StderrOther)}
         \cup (IF cl.billing = "" THEN {Fail(StderrNoBilling)} ELSE {})

BillingLinkResults(cl, acct) ==
    IF cl.billing = acct THEN {Ok(<<>>), Fail(StderrAssociated)}
    ELSE {Ok(<<>>), Fail(StderrPermission)}

ServicesEnableResults == {Ok(<<>>), Fail(StderrOther)}

SACreateResults(cl) ==
    IF cl.sa THEN {Fail(StderrConflict)}
    ELSE {Ok(<<>>), Fail(StderrPermission)}

GrantResults == {Ok(<<>>), Fail(StderrPermission)}

BucketDescribeResults(cl) ==
    IF cl.bucket THEN {Ok(<<"name:", "bucket", "\n">>), Fail(StderrOther)}
    ELSE {Fail(StderrNotFound), Fail(StderrOther)}

BucketCreateResults(cl) ==
    IF cl.bucket THEN {Fail(StderrConflict)}
    ELSE {Ok(<<>>), Fail(StderrPermission)}

VersioningDescribeResults(cl) ==
    IF cl.bucket
    THEN {IF cl.versioning THEN Ok(<<"True", "\n">>) ELSE Ok(<<"\n">>),
          Fail(StderrOther), Fail(StderrNotFound)}
    ELSE {Fail(StderrNotFound)}

BucketUpdateResults(cl) ==
    IF cl.bucket THEN {Ok(<<>>), Fail(StderrPermission)}
    ELSE {Fail(StderrNotFound)}

KeysCreateResults == {Ok(<<>>), Fail(StderrPermission)}

\* ------------------------------------------------ the command helpers
\* runCommand streams the tool's stdout and stderr to the terminal; the
\* error it returns carries the command line and the exit status only.
runCommand(argv, res) ==
    IF res.ok THEN Nil
    ELSE <<"command", "failed:", "gcloud">> \o argv \o <<":", "exit", "status", "1">>

\* runCommandGetOutput captures stdout; its error also carries stderr.
runCommandGetOutput(argv, res) ==
    IF res.ok THEN [out |-> TrimSpace(res.out), err |-> Nil]
    ELSE [out |-> <<>>,
          err |-> <<"command", "failed:", "gcloud">> \o argv
                  \o <<":", "exit", "status", "1", "Stderr:">> \o res.stderr]

\* fmt.Errorf("<prefix>: %w", err)
Wrap(prefix, err) == prefix \o <<":">> \o err

\* One entry of the history of external commands.
Call(op, argv, res) ==
    [op |-> op, argv |-> argv, ok |-> res.ok, out |-> res.out,
     stderr |-> res.stderr]

MutatingOps ==
    {"config.set", "projects.create", "billing.link", "services.enable",
     "sa.create", "projects.grant", "billing.grant", "buckets.create",
     "buckets.update", "keys.create"}

ReadOnlyOps ==
    {"auth.list", "projects.list", "billing.describe", "buckets.describe",
     "versioning.describe"}

\* ------------------------------------------------ the operator's input line
Inputs ==
    {<<>>,
     <<"\n">>,
     <<"y", "e", "s", "\n">>,
     <<" ", "Y", "E", "s", " ", "\r", "\n">>,
     <<"y", "\n">>,
     <<"n", "o", "\n">>,
     <<"y", "e", "s", " ", "p", "l", "e", "a", "s", "e", "\n">>}

Yes == <<"y", "e", "s">>

\* Nothing has been read from standard input yet.
NoInput == <<"<unread>">>

\* ------------------------------------------------------------- the state
VARIABLES
    pc,         \* the statement of main() that runs next, or "exited"
    run,        \* which invocation of the program this is
    doc,        \* the configuration file on disk
    cfg,        \* the Config main() holds
    input,      \* the line read at the confirmation prompt
    calls,      \* the external commands issued in this run, in order
    cloud,      \* the remote state behind the tool
    ret,        \* what each step function returned in this run
    exitCode,   \* the process exit status, -1 while running
    completed,  \* the completion message was printed in this run
    pauses,     \* the time.Sleep calls taken in this run, in order
    keyDirs,    \* directories made for the key file in this run
    history,    \* the exit status of each earlier run
    loadResult  \* the error and the warnings of loadConfig in this run

vars ==
    <<pc, run, doc, cfg, input, calls, cloud, ret, exitCode, completed, pauses,
      keyDirs, history, loadResult>>

NotLoaded == [err |-> "none", warn |-> {}]

\* time.Sleep(5 * time.Second)
SleepSeconds == 5

Steps ==
    <<"setProject", "createProject", "linkBilling", "enableAPIs",
      "createServiceAccount", "grantIAMRoles", "createBucket",
      "enableBucketVersioning", "generateSAKey">>

StepSet == {Steps[i] : i \in DOMAIN Steps}

\* The calls main() makes before the steps.
Gates == {"checkGcloud", "loadConfig", "confirmExecution"}

NoRet == [s \in Gates \cup StepSet |-> "none"]

Init ==
    /\ pc = "checkGcloud"
    /\ run = 1
    /\ doc \in Docs
    /\ cfg = NoConfig
    /\ input = NoInput
    /\ calls = <<>>
    /\ cloud \in InitClouds
    /\ ret = NoRet
    /\ exitCode = -1
    /\ completed = FALSE
    /\ pauses = <<>>
    /\ loadResult = NotLoaded
    /\ keyDirs = 0
    /\ history = <<>>

logErrorStatusZero ==
    /\ pc' = "exited"
    /\ exitCode' = 0

\* logError: log.Fatalf ends the process with status 1.
logError ==
    /\ pc' = "exited"
    /\ exitCode' = 1

\* ------------------------------------------------------------- checkGcloud
AuthListArgv ==
    <<"auth", "list", "--filter=status:ACTIVE", "--format=value(account)">>

CheckGcloudIgnoresNoAccount ==
    /\ pc = "checkGcloud"
    /\ \E found \in BOOLEAN :
         IF ~found
         THEN /\ logError
              /\ ret' = [ret EXCEPT !["checkGcloud"] = "err"]
              /\ UNCHANGED calls
         ELSE \E res \in AuthListResults :
                LET q == runCommandGetOutput(AuthListArgv, res) IN
                /\ calls' = Append(calls, Call("auth.list", AuthListArgv, res))
                /\ IF q.err # Nil
                   THEN logError /\ ret' = [ret EXCEPT !["checkGcloud"] = "err"]
                   ELSE /\ pc' = "loadConfig"
                        /\ ret' = [ret EXCEPT !["checkGcloud"] = "nil"]
                        /\ UNCHANGED exitCode
    /\ UNCHANGED <<run, doc, cfg, input, cloud, completed, pauses, keyDirs, history, loadResult>>

CheckGcloud ==
    /\ pc = "checkGcloud"
    /\ \E found \in BOOLEAN :
         IF ~found
         THEN /\ logError
              /\ ret' = [ret EXCEPT !["checkGcloud"] = "err"]
              /\ UNCHANGED calls
         ELSE \E res \in AuthListResults :
                LET q == runCommandGetOutput(AuthListArgv, res) IN
                /\ calls' = Append(calls, Call("auth.list", AuthListArgv, res))
                /\ IF q.err # Nil \/ q.out = <<>>
                   THEN logError /\ ret' = [ret EXCEPT !["checkGcloud"] = "err"]
                   ELSE /\ pc' = "loadConfig"
                        /\ ret' = [ret EXCEPT !["checkGcloud"] = "nil"]
                        /\ UNCHANGED exitCode
    /\ UNCHANGED <<run, doc, cfg, input, cloud, completed, pauses, keyDirs, history, loadResult>>

\* ------------------------------------------------------ main: load config
LoadConfig ==
    /\ pc = "loadConfig"
    /\ LET r == loadConfig(doc) IN
         IF r.err # ""
         THEN /\ logError
              /\ ret' = [ret EXCEPT !["loadConfig"] = "err"]
              /\ UNCHANGED cfg
         ELSE /\ cfg' = r.cfg
              /\ pc' = "confirm"
              /\ ret' = [ret EXCEPT !["loadConfig"] = "nil"]
              /\ UNCHANGED exitCode
    /\ loadResult' = [err |-> loadConfig(doc).err, warn |-> loadConfig(doc).warn]
    /\ UNCHANGED <<run, doc, input, calls, cloud, completed, pauses, keyDirs, history>>

\* -------------------------------------------------------- confirmExecution
confirmedOnPrefix(line) ==
    LET t == TrimSpace(ToLower(line)) IN t # <<>> /\ t[1] = "y"

confirmedCaseSensitive(line) == TrimSpace(line) = Yes

confirmed(line) == TrimSpace(ToLower(line)) = Yes

ConfirmExecution ==
    /\ pc = "confirm"
    /\ \E line \in Inputs :
         /\ input' = line
         /\ IF ~confirmed(line)
            THEN /\ pc' = "exited"
                 /\ exitCode' = 0
                 /\ ret' = [ret EXCEPT !["confirmExecution"] = "exit"]
            ELSE /\ pc' = "setProject"
                 /\ ret' = [ret EXCEPT !["confirmExecution"] = "nil"]
                 /\ UNCHANGED exitCode
    /\ UNCHANGED <<run, doc, cfg, calls, cloud, completed, pauses, keyDirs, history, loadResult>>

\* ------------------------------------------------- the provisioning steps
\* Each step function is the set of ways one call of it can go: the external
\* commands it issued, the remote state it left, and the error it returned.
Outcome(cs, cl, err) == [calls |-> cs, cloud |-> cl, err |-> err]

\* Another actor may create the resource between a check and the create.
RaceProject(cl) == {cl, [cl EXCEPT !.project = TRUE]}
RaceBilling(cl, acct) == {cl, [cl EXCEPT !.billing = acct]}
RaceBucket(cl) == {cl, [cl EXCEPT !.bucket = TRUE]}

ConfigSetArgv(c) == <<"config", "set", "project", c.ProjectID>>

setProject(c, cl) ==
    {Outcome(<<Call("config.set", ConfigSetArgv(c), res)>>, cl,
             runCommand(ConfigSetArgv(c), res)) : res \in ConfigSetResults}

ProjectsListArgv(projectID) ==
    <<"projects", "list", "--filter", "project_id=" \o projectID,
      "--format=value(project_id)", "--quiet">>

projectExistsOnAnyAnswer(projectID, res) ==
    LET q == runCommandGetOutput(ProjectsListArgv(projectID), res) IN
    IF q.err # Nil THEN [exists |-> FALSE, err |-> Nil]
    ELSE [exists |-> TRUE, err |-> Nil]

projectExists(projectID, res) ==
    LET q == runCommandGetOutput(ProjectsListArgv(projectID), res) IN
    IF q.err # Nil THEN [exists |-> FALSE, err |-> Nil]
    ELSE [exists |-> (q.out = <<projectID>>), err |-> Nil]

ProjectsCreateArgv(c) ==
    <<"projects", "create", c.ProjectID, "--name">> \o c.ProjectName
    \o (IF c.OrganizationID # "" THEN <<"--organization", c.OrganizationID>>
        ELSE <<>>)

createProjectResult(c, err) ==
    IF err # Nil
    THEN IF Contains(err, AlreadyExists) THEN Nil
         ELSE Wrap(<<"failed", "to", "create", "project">>, err)
    ELSE Nil

createProject(c, cl) ==
    UNION {
      LET chkCall == Call("projects.list", ProjectsListArgv(c.ProjectID), chk)
          e == projectExists(c.ProjectID, chk)
      IN IF e.exists
         THEN {Outcome(<<chkCall>>, cl, Nil)}
         ELSE UNION {
                {Outcome(<<chkCall, Call("projects.create", ProjectsCreateArgv(c), res)>>,
                         IF res.ok THEN [mid EXCEPT !.project = TRUE] ELSE mid,
                         createProjectResult(c, runCommand(ProjectsCreateArgv(c), res)))
                   : res \in ProjectsCreateResults(mid)}
                : mid \in RaceProject(cl)}
      : chk \in ProjectsListResults(cl, c.ProjectID)}

BillingDescribeArgv(projectID) ==
    <<"beta", "billing", "projects", "describe", projectID,
      "--format=value(billingAccountName)">>

isBillingLinkedAnyAccount(projectID, billingAccountID, res) ==
    LET q == runCommandGetOutput(BillingDescribeArgv(projectID), res) IN
    IF q.err # Nil
    THEN IF Contains(q.err, MustBeAssociated) THEN [linked |-> FALSE, err |-> Nil]
         ELSE IF Contains(q.err, NoPermission) \/ Contains(q.err, NotFound)
              THEN [linked |-> FALSE, err |-> Nil]
         ELSE [linked |-> FALSE,
               err |-> Wrap(<<"failed", "to", "check", "billing", "status">>, q.err)]
    ELSE LET parts == Split(q.out, "/") IN
         IF Len(parts) > 1
         THEN [linked |-> TRUE, err |-> Nil]
         ELSE [linked |-> FALSE, err |-> Nil]

isBillingLinked(projectID, billingAccountID, res) ==
    LET q == runCommandGetOutput(BillingDescribeArgv(projectID), res) IN
    IF q.err # Nil
    THEN IF Contains(q.err, MustBeAssociated) THEN [linked |-> FALSE, err |-> Nil]
         ELSE IF Contains(q.err, NoPermission) \/ Contains(q.err, NotFound)
              THEN [linked |-> FALSE, err |-> Nil]
         ELSE [linked |-> FALSE,
               err |-> Wrap(<<"failed", "to", "check", "billing", "status">>, q.err)]
    ELSE LET parts == Split(q.out, "/") IN
         IF Len(parts) > 1 /\ parts[2] = <<billingAccountID>>
         THEN [linked |-> TRUE, err |-> Nil]
         ELSE [linked |-> FALSE, err |-> Nil]

BillingLinkArgv(c) ==
    <<"beta", "billing", "projects", "link", c.ProjectID, "--billing-account",
      c.BillingAccountID>>

linkBillingResult(c, err) ==
    IF err # Nil
    THEN IF Contains(err, AlreadyAssociated) THEN Nil
         ELSE Wrap(<<"failed", "to", "link", "billing", "account">>, err)
    ELSE Nil

linkBilling(c, cl) ==
    UNION {
      LET chkCall == Call("billing.describe", BillingDescribeArgv(c.ProjectID), chk)
          l == isBillingLinked(c.ProjectID, c.BillingAccountID, chk)
      IN IF l.linked
         THEN {Outcome(<<chkCall>>, cl, Nil)}
         ELSE UNION {
                {Outcome(<<chkCall, Call("billing.link", BillingLinkArgv(c), res)>>,
                         IF res.ok THEN [mid EXCEPT !.billing = c.BillingAccountID]
                         ELSE mid,
                         linkBillingResult(c, runCommand(BillingLinkArgv(c), res)))
                   : res \in BillingLinkResults(mid, c.BillingAccountID)}
                : mid \in RaceBilling(cl, c.BillingAccountID)}
      : chk \in BillingDescribeResults(cl)}

ServicesEnableArgv(c) ==
    <<"services", "enable">> \o c.EnableAPIs
    \o <<"--project", c.ProjectID>> \o <<"--async">>

enableAPIsFatal(c, cl) ==
    IF Len(c.EnableAPIs) = 0
    THEN {Outcome(<<>>, cl, Nil)}
    ELSE {Outcome(<<Call("services.enable", ServicesEnableArgv(c), res)>>, cl,
                  runCommand(ServicesEnableArgv(c), res))
            : res \in ServicesEnableResults}

enableAPIs(c, cl) ==
    IF Len(c.EnableAPIs) = 0
    THEN {Outcome(<<>>, cl, Nil)}
    ELSE {Outcome(<<Call("services.enable", ServicesEnableArgv(c), res)>>, cl, Nil)
            : res \in ServicesEnableResults}

SACreateArgv(c) ==
    <<"iam", "service-accounts", "create", c.TFServiceAccountName,
      "--display-name", "Terraform", "Admin", "Service", "Account",
      "--project", c.ProjectID>>

createServiceAccountResult(c, err) ==
    IF err # Nil
    THEN IF Contains(err, AlreadyExists) THEN Nil
         ELSE Wrap(<<"failed", "to", "create", "service", "account">>, err)
    ELSE Nil

createServiceAccount(c, cl) ==
    {Outcome(<<Call("sa.create", SACreateArgv(c), res)>>,
             IF res.ok THEN [cl EXCEPT !.sa = TRUE] ELSE cl,
             createServiceAccountResult(c, runCommand(SACreateArgv(c), res)))
       : res \in SACreateResults(cl)}

Member(c) == "serviceAccount:" \o c.TFServiceAccountEmail

ProjectGrantArgv(c, role) ==
    <<"projects", "add-iam-policy-binding", c.ProjectID, "--member", Member(c),
      "--role", role, "--condition=None">>

BillingGrantArgv(c) ==
    <<"beta", "billing", "accounts", "add-iam-policy-binding",
      c.BillingAccountID, "--member", Member(c), "--role",
      c.TFServiceAccountBillingRole>>

\* The loop over the project roles: one grant per role, failures only warned.
RECURSIVE GrantProjectRoles(_, _)
GrantProjectRoles(c, roles) ==
    IF roles = <<>> THEN {<<>>}
    ELSE {<<Call("projects.grant", ProjectGrantArgv(c, Head(roles)), res)>> \o rest :
            res \in GrantResults, rest \in GrantProjectRoles(c, Tail(roles))}

GrantBillingRole(c) ==
    IF c.TFServiceAccountBillingRole # ""
    THEN {<<Call("billing.grant", BillingGrantArgv(c), res)>> : res \in GrantResults}
    ELSE {<<>>}

UpToFirstFailure(cs) ==
    IF \E i \in DOMAIN cs : ~cs[i].ok
    THEN SubSeq(cs, 1, CHOOSE i \in DOMAIN cs :
                         ~cs[i].ok /\ \A j \in 1..(i - 1) : cs[j].ok)
    ELSE cs

grantIAMRolesFailFast(c, cl) ==
    {Outcome(UpToFirstFailure(pr \o br), cl, Nil) :
       pr \in GrantProjectRoles(c, c.TFServiceAccountProjectRoles),
       br \in GrantBillingRole(c)}

grantIAMRoles(c, cl) ==
    {Outcome(pr \o br, cl, Nil) :
       pr \in GrantProjectRoles(c, c.TFServiceAccountProjectRoles),
       br \in GrantBillingRole(c)}

BucketURL(c) == "gs://" \o c.TFStateBucketName

BucketDescribeArgv(bucketName, projectID) ==
    <<"storage", "buckets", "describe", "gs://" \o bucketName,
      "--project", projectID>>

bucketExistsNever(bucketName, projectID, res) ==
    [exists |-> FALSE, err |-> Nil]

bucketExistsAnyFailureAbsent(bucketName, projectID, res) ==
    LET q == runCommandGetOutput(BucketDescribeArgv(bucketName, projectID), res) IN
    IF q.err # Nil THEN [exists |-> FALSE, err |-> Nil]
    ELSE [exists |-> TRUE, err |-> Nil]

bucketExists(bucketName, projectID, res) ==
    LET q == runCommandGetOutput(BucketDescribeArgv(bucketName, projectID), res) IN
    IF q.err # Nil
    THEN IF Contains(q.err, NotFound) THEN [exists |-> FALSE, err |-> Nil]
         ELSE [exists |-> FALSE,
               err |-> Wrap(<<"failed", "to", "check", "bucket", "existence">>, q.err)]
    ELSE [exists |-> TRUE, err |-> Nil]

BucketCreateArgv(c) ==
    <<"storage", "buckets", "create", BucketURL(c), "--project", c.ProjectID,
      "--location", c.ProjectRegion, "--uniform-bucket-level-access">>

createBucketResultIgnoresErrors(c, err) == Nil

createBucketResult(c, err) ==
    IF err # Nil
    THEN IF Contains(err, AlreadyExists) THEN Nil
         ELSE Wrap(<<"failed", "to", "create", "GCS", "bucket">>, err)
    ELSE Nil

createBucket(c, cl) ==
    UNION {
      LET chkCall == Call("buckets.describe",
                          BucketDescribeArgv(c.TFStateBucketName, c.ProjectID), chk)
          e == bucketExists(c.TFStateBucketName, c.ProjectID, chk)
      IN IF e.err # Nil THEN {Outcome(<<chkCall>>, cl, e.err)}
         ELSE IF e.exists THEN {Outcome(<<chkCall>>, cl, Nil)}
         ELSE UNION {
                {Outcome(<<chkCall, Call("buckets.create", BucketCreateArgv(c), res)>>,
                         IF res.ok THEN [mid EXCEPT !.bucket = TRUE] ELSE mid,
                         createBucketResult(c, runCommand(BucketCreateArgv(c), res)))
                   : res \in BucketCreateResults(mid)}
                : mid \in RaceBucket(cl)}
      : chk \in BucketDescribeResults(cl)}

VersioningDescribeArgv(bucketName, projectID) ==
    <<"storage", "buckets", "describe", "gs://" \o bucketName,
      "--format=value(versioning.enabled)", "--project", projectID>>

isVersioningEnabled(bucketName, projectID, res) ==
    LET q == runCommandGetOutput(VersioningDescribeArgv(bucketName, projectID), res) IN
    IF q.err # Nil
    THEN [enabled |-> FALSE,
          err |-> Wrap(<<"failed", "to", "check", "bucket", "versioning">>, q.err)]
    ELSE [enabled |-> (ToLower(q.out) = <<"true">>), err |-> Nil]

BucketUpdateArgv(c) ==
    <<"storage", "buckets", "update", BucketURL(c), "--versioning",
      "--project", c.ProjectID>>

enableBucketVersioningResult(err) ==
    IF err # Nil THEN Wrap(<<"failed", "to", "enable", "versioning">>, err) ELSE Nil

enableBucketVersioning(c, cl) ==
    UNION {
      LET chkCall == Call("versioning.describe",
                          VersioningDescribeArgv(c.TFStateBucketName, c.ProjectID), chk)
          v == isVersioningEnabled(c.TFStateBucketName, c.ProjectID, chk)
      IN IF v.err # Nil THEN {Outcome(<<chkCall>>, cl, v.err)}
         ELSE IF v.enabled THEN {Outcome(<<chkCall>>, cl, Nil)}
         ELSE {Outcome(<<chkCall, Call("buckets.update", BucketUpdateArgv(c), res)>>,
                       IF res.ok THEN [cl EXCEPT !.versioning = TRUE] ELSE cl,
                       enableBucketVersioningResult(runCommand(BucketUpdateArgv(c), res)))
                 : res \in BucketUpdateResults(cl)}
      : chk \in VersioningDescribeResults(cl)}

KeysCreateArgv(c) ==
    <<"iam", "service-accounts", "keys", "create", c.TFSAKeyPath,
      "--iam-account", c.TFServiceAccountEmail, "--project", c.ProjectID>>

generateSAKeyResult(err) ==
    IF err # Nil
    THEN Wrap(<<"failed", "to", "generate", "service", "account", "key">>, err)
    ELSE Nil

generateSAKeyAlways(c, cl) ==
    {[calls |-> <<>>, cloud |-> cl, mkdirs |-> 0,
      err |-> <<"failed", "to", "create", "directory", "for", "SA", "key">>]}
    \cup {[calls |-> <<Call("keys.create", KeysCreateArgv(c), res)>>,
           cloud |-> cl, mkdirs |-> 1,
           err |-> generateSAKeyResult(runCommand(KeysCreateArgv(c), res))]
            : res \in KeysCreateResults}

\* generateSAKey also says how many directories os.MkdirAll made.
generateSAKey(c, cl) ==
    IF ~c.GenerateTFSAKey
    THEN {[calls |-> <<>>, cloud |-> cl, err |-> Nil, mkdirs |-> 0]}
    ELSE {[calls |-> <<>>, cloud |-> cl, mkdirs |-> 0,
           err |-> <<"failed", "to", "create", "directory", "for", "SA", "key">>]}
         \cup {[calls |-> <<Call("keys.create", KeysCreateArgv(c), res)>>,
                cloud |-> cl, mkdirs |-> 1,
                err |-> generateSAKeyResult(runCommand(KeysCreateArgv(c), res))]
                 : res \in KeysCreateResults}

\* ------------------------------------------------------ main: the sequence
StepReturnsAndContinues(step, o, next) ==
    /\ calls' = calls \o o.calls
    /\ cloud' = o.cloud
    /\ ret' = [ret EXCEPT ![step] = IF o.err = Nil THEN "nil" ELSE "err"]
    /\ pc' = next
    /\ UNCHANGED exitCode

\* if err := step(cfg); err != nil { logError(...) }
StepReturns(step, o, next) ==
    /\ calls' = calls \o o.calls
    /\ cloud' = o.cloud
    /\ ret' = [ret EXCEPT ![step] = IF o.err = Nil THEN "nil" ELSE "err"]
    /\ IF o.err # Nil THEN logError ELSE pc' = next /\ UNCHANGED exitCode

SetProject ==
    /\ pc = "setProject"
    /\ \E o \in setProject(cfg, cloud) : StepReturns("setProject", o, "createProject")
    /\ UNCHANGED <<run, doc, cfg, input, completed, pauses, keyDirs, history, loadResult>>

CreateProject ==
    /\ pc = "createProject"
    /\ \E o \in createProject(cfg, cloud) : StepReturns("createProject", o, "linkBilling")
    /\ UNCHANGED <<run, doc, cfg, input, completed, pauses, keyDirs, history, loadResult>>

LinkBillingThenServiceAccount ==
    /\ pc = "linkBilling"
    /\ \E o \in linkBilling(cfg, cloud) :
         /\ calls' = calls \o o.calls
         /\ cloud' = o.cloud
         /\ ret' = [ret EXCEPT !["linkBilling"] = IF o.err = Nil THEN "nil" ELSE "err"]
         /\ IF o.err # Nil THEN logError
            ELSE pc' = "createServiceAccount" /\ UNCHANGED exitCode
    /\ UNCHANGED <<run, doc, cfg, input, completed, pauses, keyDirs, history, loadResult>>

LinkBilling ==
    /\ pc = "linkBilling"
    /\ \E o \in linkBilling(cfg, cloud) : StepReturns("linkBilling", o, "enableAPIs")
    /\ UNCHANGED <<run, doc, cfg, input, completed, pauses, keyDirs, history, loadResult>>

EnableAPIs ==
    /\ pc = "enableAPIs"
    /\ \E o \in enableAPIs(cfg, cloud) : StepReturns("enableAPIs", o, "createServiceAccount")
    /\ UNCHANGED <<run, doc, cfg, input, completed, pauses, keyDirs, history, loadResult>>

CreateServiceAccountPausesAfterCreate ==
    /\ pc = "createServiceAccount"
    /\ pauses' = Append(pauses, [after |-> Len(calls) + 1, seconds |-> SleepSeconds])
    /\ \E o \in createServiceAccount(cfg, cloud) :
         StepReturns("createServiceAccount", o, "grantIAMRoles")
    /\ UNCHANGED <<run, doc, cfg, input, completed, keyDirs, history, loadResult>>

\* createServiceAccount sleeps, then issues the create command.
CreateServiceAccount ==
    /\ pc = "createServiceAccount"
    /\ pauses' = Append(pauses, [after |-> Len(calls), seconds |-> SleepSeconds])
    /\ \E o \in createServiceAccount(cfg, cloud) :
         StepReturns("createServiceAccount", o, "grantIAMRoles")
    /\ UNCHANGED <<run, doc, cfg, input, completed, keyDirs, history, loadResult>>

\* main only warns when grantIAMRoles returns an error.
GrantIAMRoles ==
    /\ pc = "grantIAMRoles"
    /\ \E o \in grantIAMRoles(cfg, cloud) :
         /\ calls' = calls \o o.calls
         /\ cloud' = o.cloud
         /\ ret' = [ret EXCEPT !["grantIAMRoles"] = IF o.err = Nil THEN "nil" ELSE "err"]
    /\ pc' = "createBucket"
    /\ UNCHANGED <<run, doc, cfg, input, exitCode, completed, pauses, keyDirs, history, loadResult>>

CreateBucket ==
    /\ pc = "createBucket"
    /\ \E o \in createBucket(cfg, cloud) :
         StepReturns("createBucket", o, "enableBucketVersioning")
    /\ UNCHANGED <<run, doc, cfg, input, completed, pauses, keyDirs, history, loadResult>>

EnableBucketVersioning ==
    /\ pc = "enableBucketVersioning"
    /\ \E o \in enableBucketVersioning(cfg, cloud) :
         StepReturns("enableBucketVersioning", o, "generateSAKey")
    /\ UNCHANGED <<run, doc, cfg, input, completed, pauses, keyDirs, history, loadResult>>

GenerateSAKey ==
    /\ pc = "generateSAKey"
    /\ \E o \in generateSAKey(cfg, cloud) :
         /\ StepReturns("generateSAKey", o, "complete")
         /\ keyDirs' = keyDirs + o.mkdirs
    /\ UNCHANGED <<run, doc, cfg, input, completed, pauses, history, loadResult>>

\* The completion message, then main returns.
Complete ==
    /\ pc = "complete"
    /\ completed' = TRUE
    /\ pc' = "exited"
    /\ exitCode' = 0
    /\ UNCHANGED <<run, doc, cfg, input, calls, cloud, ret, pauses, keyDirs, history, loadResult>>

\* The operator starts the program again on the same configuration file,
\* after a run that completed, with the remote state as that run left it.
Rerun ==
    /\ pc = "exited"
    /\ completed
    /\ run < MaxRuns
    /\ history' = Append(history, exitCode)
    /\ run' = run + 1
    /\ pc' = "checkGcloud"
    /\ cfg' = NoConfig
    /\ input' = NoInput
    /\ calls' = <<>>
    /\ ret' = NoRet
    /\ exitCode' = -1
    /\ completed' = FALSE
    /\ pauses' = <<>>
    /\ loadResult' = NotLoaded
    /\ keyDirs' = 0
    /\ UNCHANGED <<doc, cloud>>

Next ==
    \/ CheckGcloud
    \/ LoadConfig
    \/ ConfirmExecution
    \/ SetProject
    \/ CreateProject
    \/ LinkBilling
    \/ EnableAPIs
    \/ CreateServiceAccount
    \/ GrantIAMRoles
    \/ CreateBucket
    \/ EnableBucketVersioning
    \/ GenerateSAKey
    \/ Complete
    \/ Rerun

Spec == Init /\ [][Next]_vars

\* ================================================================ claims
Issued(op) == \E i \in DOMAIN calls : calls[i].op = op

\* The external commands each step function can issue.
OpsOfStep ==
    [s \in StepSet |->
       CASE s = "setProject" -> {"config.set"}
         [] s = "createProject" -> {"projects.list", "projects.create"}
         [] s = "linkBilling" -> {"billing.describe", "billing.link"}
         [] s = "enableAPIs" -> {"services.enable"}
         [] s = "createServiceAccount" -> {"sa.create"}
         [] s = "grantIAMRoles" -> {"projects.grant", "billing.grant"}
         [] s = "createBucket" -> {"buckets.describe", "buckets.create"}
         [] s = "enableBucketVersioning" -> {"versioning.describe", "buckets.update"}
         [] s = "generateSAKey" -> {"keys.create"}]

StepOfOpTable ==
    [op \in (MutatingOps \cup ReadOnlyOps) \ {"auth.list"} |->
       CHOOSE s \in StepSet : op \in OpsOfStep[s]]

StepOfOp(op) == StepOfOpTable[op]

StepIndex == [s \in StepSet |-> CHOOSE i \in DOMAIN Steps : Steps[i] = s]

\* Position of a command in the fixed order of main(); the authentication
\* query of checkGcloud comes first.
RankTable ==
    [op \in MutatingOps \cup ReadOnlyOps |->
       IF op = "auth.list" THEN 0 ELSE StepIndex[StepOfOpTable[op]]]

Rank(op) == RankTable[op]

AffirmativeLine(line) == TrimSpace(ToLower(line)) = <<"y", "e", "s">>

\* C1: when the line read at the prompt is not the affirmative token (an
\* empty line and end of input included), the run has ended with status 0,
\* no step has run and no mutating command has been issued.
C1_NoMutationOnAbort ==
    (input # NoInput /\ ~AffirmativeLine(input)) =>
        /\ pc = "exited"
        /\ exitCode = 0
        /\ \A i \in DOMAIN calls : calls[i].op \notin MutatingOps
        /\ \A s \in StepSet : ret[s] = "none"

C1_Witness ==
    /\ input \in {<<>>, <<"\n">>, <<"y", "\n">>}
    /\ pc = "exited"
    /\ Len(calls) = 1

\* C2 as stated: at the moment loadConfig rejects the configuration no
\* external command, read-only or mutating, has been invoked.
C2_NoCallAtRejection ==
    ret["loadConfig"] = "err" => calls = <<>>

\* C2 as amended: a document with a missing required field, or with the
\* placeholder of the billing account, project id or bucket name, is rejected
\* by loadConfig; at the rejection the run ends with status 1, nothing has
\* been read from the operator, no mutating command has been issued, and the
\* only external command invoked is the read-only authentication query of
\* checkGcloud.
C2_OnlyAuthQueryAtRejection ==
    /\ (doc \in InvalidDocs /\ ret["checkGcloud"] = "nil" /\ pc # "loadConfig")
          => ret["loadConfig"] = "err"
    /\ ret["loadConfig"] = "err" =>
          /\ pc = "exited"
          /\ exitCode = 1
          /\ input = NoInput
          /\ Len(calls) = 1
          /\ calls[1].op = "auth.list"
          /\ calls[1].op \in ReadOnlyOps

C2_Witness ==
    /\ ret["loadConfig"] = "err"
    /\ doc.tf_state_bucket_name = PlaceholderBucket
    /\ Len(calls) = 1

ConflictReported(c) ==
    /\ ~c.ok
    /\ Contains(c.stderr, AlreadyExists) \/ Contains(c.stderr, AlreadyAssociated)

\* C3: when the create or link command of a structural step fails with the
\* tool reporting the conflict sentinel, the step returns success.
C3_ConflictIsSuccess ==
    \A i \in DOMAIN calls :
        (calls[i].op \in {"projects.create", "billing.link", "buckets.create"}
         /\ ConflictReported(calls[i]))
            => ret[StepOfOp(calls[i].op)] = "nil"

StructuralMutatingOps ==
    {"projects.create", "billing.link", "sa.create", "buckets.create",
     "buckets.update"}

\* C4: a second run on the same configuration, after a run that completed,
\* issues no mutating command for the project, the billing link, the service
\* account, the bucket or its versioning, and its service-account step does
\* not fail.
C4_SecondRunIsNoOp ==
    (run > 1 /\ history[run - 1] = 0) =>
        /\ \A i \in DOMAIN calls : calls[i].op \notin StructuralMutatingOps
        /\ ret["createServiceAccount"] # "err"

IsGrant(c) == c.op \in {"projects.grant", "billing.grant"}

\* C5: whatever grants fail, grantIAMRoles issues exactly one project grant
\* per configured role, in configuration order, then the billing grant iff a
\* billing role is configured; it returns nil and main goes on to
\* createBucket.
C5_GrantFailuresDoNotHalt ==
    ret["grantIAMRoles"] # "none" =>
        LET g == SelectSeq(calls, IsGrant)
            roles == cfg.TFServiceAccountProjectRoles
            n == Len(roles)
            hasBilling == cfg.TFServiceAccountBillingRole # ""
        IN /\ ret["grantIAMRoles"] = "nil"
           /\ Len(g) = n + (IF hasBilling THEN 1 ELSE 0)
           /\ \A i \in 1..n :
                i <= Len(g) => (g[i].op = "projects.grant" /\ g[i].argv[7] = roles[i])
           /\ hasBilling =>
                (Len(g) = n + 1 /\ g[n + 1].op = "billing.grant"
                 /\ g[n + 1].argv[9] = cfg.TFServiceAccountBillingRole)
           /\ pc = "createBucket" \/ ret["createBucket"] # "none"

C5_Witness ==
    /\ \E i, j \in DOMAIN calls :
          /\ i < j
          /\ calls[i].op = "projects.grant" /\ ~calls[i].ok
          /\ IsGrant(calls[j])
    /\ ret["createBucket"] = "nil"

\* C6: once a step has returned an error to main (the role grants never do),
\* the process has exited with status 1, the completion message is not
\* printed, and no later step has run or issued a command.
C6_FatalFailureHalts ==
    \A i \in DOMAIN Steps :
        ret[Steps[i]] = "err" =>
            /\ pc = "exited"
            /\ exitCode = 1
            /\ ~completed
            /\ \A j \in (i + 1)..Len(Steps) :
                 /\ ret[Steps[j]] = "none"
                 /\ \A k \in DOMAIN calls : calls[k].op \notin OpsOfStep[Steps[j]]

C6_Witness ==
    /\ ret["createBucket"] = "err"
    /\ Issued("projects.grant")

ProvisioningMutatingOps == MutatingOps \ {"config.set", "keys.create"}

\* C8 as stated: every mutating command of a provisioning action is issued
\* right after a read-only query of the same action.
C8_EveryActionQueriesFirst ==
    \A i \in DOMAIN calls :
        calls[i].op \in ProvisioningMutatingOps =>
            /\ i > 1
            /\ calls[i - 1].op \in ReadOnlyOps
            /\ StepOfOp(calls[i - 1].op) = StepOfOp(calls[i].op)

QueryOf(op) ==
    CASE op = "projects.create" -> "projects.list"
      [] op = "billing.link" -> "billing.describe"
      [] op = "buckets.create" -> "buckets.describe"
      [] op = "buckets.update" -> "versioning.describe"

CheckedMutatingOps ==
    {"projects.create", "billing.link", "buckets.create", "buckets.update"}

\* What the answer of a query says about the target state.
ShowsSatisfied(c) ==
    /\ c.ok
    /\ CASE c.op = "projects.list" -> TrimSpace(c.out) = <<cfg.ProjectID>>
         [] c.op = "billing.describe" ->
              TrimSpace(c.out) = <<"billingAccounts", "/", cfg.BillingAccountID>>
         [] c.op = "buckets.describe" -> TRUE
         [] c.op = "versioning.describe" -> TrimSpace(c.out) = <<"True">>
         [] OTHER -> FALSE

\* C8 as amended: the project, billing-link, bucket and versioning actions
\* issue their mutating command only right after their own read-only query,
\* and only when that query did not show the target state; when it did, no
\* mutating command follows.  API enablement (when APIs are configured),
\* service-account creation and the role grants issue their mutating command
\* without any query.
C8_CheckedActionsQueryFirst ==
    /\ \A i \in DOMAIN calls :
         calls[i].op \in CheckedMutatingOps =>
             /\ i > 1
             /\ calls[i - 1].op = QueryOf(calls[i].op)
             /\ ~ShowsSatisfied(calls[i - 1])
    /\ \A i \in DOMAIN calls :
         (calls[i].op \in ReadOnlyOps /\ ShowsSatisfied(calls[i]) /\ i < Len(calls))
             => StepOfOp(calls[i + 1].op) # StepOfOp(calls[i].op)
    /\ (ret["enableAPIs"] # "none" /\ cfg.EnableAPIs # <<>>) => Issued("services.enable")
    /\ ret["createServiceAccount"] # "none" => Issued("sa.create")
    /\ ret["grantIAMRoles"] # "none" => Issued("projects.grant")
    /\ \A i \in DOMAIN calls :
         calls[i].op \in {"services.enable", "sa.create", "projects.grant", "billing.grant"}
             => (i > 1 /\ ~(calls[i - 1].op \in ReadOnlyOps
                            /\ StepOfOp(calls[i - 1].op) = StepOfOp(calls[i].op)))

C8_Witness ==
    /\ \E i \in DOMAIN calls : calls[i].op = "buckets.describe" /\ calls[i].ok
    /\ \E i \in DOMAIN calls : calls[i].op = "projects.list" /\ ~ShowsSatisfied(calls[i])
    /\ Issued("projects.create")
    /\ Issued("buckets.update")

\* C9: the exit status is 0 exactly when the run printed the completion
\* message or was aborted at the prompt; a run that ends on a failed
\* prerequisite check, a configuration load failure or a step error exits
\* with status 1.
C9_ExitStatus ==
    /\ exitCode \in {-1, 0, 1}
    /\ (pc = "exited") <=> (exitCode # -1)
    /\ pc = "exited" =>
         ((exitCode = 0) <=> (completed \/ ret["confirmExecution"] = "exit"))
    /\ (\E s \in Gates \cup StepSet : ret[s] = "err") => exitCode = 1
    /\ completed => \A s \in StepSet : ret[s] = "nil"

C9_Witness ==
    /\ pc = "exited"
    /\ exitCode = 1
    /\ ret["enableBucketVersioning"] = "err"

\* C10: the email of a loaded configuration is the service-account name,
\* "@", the project id and ".iam.gserviceaccount.com"; an email written in
\* the document is not used.
C10_DerivedEmail ==
    cfg.loaded =>
        /\ cfg.TFServiceAccountEmail =
             cfg.TFServiceAccountName \o "@" \o cfg.ProjectID
               \o ".iam.gserviceaccount.com"
        /\ cfg.TFServiceAccountName = doc.tf_service_account_name
        /\ cfg.ProjectID = doc.project_id
        /\ doc.project_id = "proj-2" =>
             cfg.TFServiceAccountEmail = "tf-deployer@proj-2.iam.gserviceaccount.com"
        /\ doc.tf_service_account_email # "" =>
             cfg.TFServiceAccountEmail # doc.tf_service_account_email

C10_Witness ==
    /\ cfg.loaded
    /\ doc.project_id = "proj-2"
    /\ doc.tf_service_account_email # ""

\* ---- loadConfig: acceptance, error kinds and warnings
RequiredPresent(d) ==
    /\ d.billing_account_id # ""
    /\ d.project_id # ""
    /\ d.project_name # <<>>
    /\ d.project_region # ""
    /\ d.tf_state_bucket_name # ""
    /\ d.tf_service_account_name # ""
    /\ d.tf_service_account_project_roles # <<>>

ValidationKinds ==
    {"billing_account_id", "project_id", "project_name", "project_region",
     "tf_state_bucket_name", "tf_service_account_name",
     "tf_service_account_project_roles"}

\* C11 as stated: loadConfig returns a configuration exactly when the file
\* exists, parses, and every required field is present and differs from its
\* example value in config.yaml.example.
C11_LoadsIffNoExampleValue ==
    loadResult.err # "none" =>
        ((loadResult.err = "") <=>
            /\ doc.file = "ok"
            /\ RequiredPresent(doc)
            /\ doc.billing_account_id # PlaceholderBilling
            /\ doc.project_id # PlaceholderProject
            /\ doc.project_name # ExampleProjectName
            /\ doc.project_region # ExampleRegion
            /\ doc.tf_state_bucket_name # PlaceholderBucket
            /\ doc.tf_service_account_name # ExampleServiceAccountName
            /\ doc.tf_service_account_project_roles # ExampleRoles)

\* C11: loadConfig returns a configuration exactly when the file exists, can
\* be read, parses, every required field is present, and the billing account
\* id, the project id and the state-bucket name differ from their placeholders;
\* otherwise it returns an error and no configuration (absent file: not found;
\* unreadable file: read error; malformed document: parse error; missing field
\* or one of the three placeholders: validation error).  An empty API list and
\* an empty billing role are warned about and do not reject.
C11_LoadsIffRequiredAndNoCheckedPlaceholder ==
    loadResult.err # "none" =>
        /\ (loadResult.err = "") <=>
              /\ doc.file = "ok"
              /\ RequiredPresent(doc)
              /\ doc.billing_account_id # PlaceholderBilling
              /\ doc.project_id # PlaceholderProject
              /\ doc.tf_state_bucket_name # PlaceholderBucket
        /\ loadResult.err = "" =>
              /\ cfg.loaded
              /\ ret["loadConfig"] = "nil"
              /\ ("enable_apis" \in loadResult.warn) <=> (doc.enable_apis = <<>>)
              /\ ("tf_service_account_billing_role" \in loadResult.warn) <=>
                    (doc.tf_service_account_billing_role = "")
        /\ loadResult.err # "" =>
              /\ ~cfg.loaded
              /\ ret["loadConfig"] = "err"
              /\ pc = "exited" /\ exitCode = 1
              /\ loadResult.warn = {}
              /\ (doc.file = "absent") <=> (loadResult.err = "not found")
              /\ (doc.file = "unreadable") <=> (loadResult.err = "read")
              /\ (doc.file = "malformed") <=> (loadResult.err = "parse")
              /\ (doc.file = "ok") <=> (loadResult.err \in ValidationKinds)

C11_Witness ==
    /\ loadResult.err = ""
    /\ pc = "confirm"
    /\ doc.enable_apis = <<>>
    /\ doc.tf_service_account_billing_role = ""
    /\ doc.project_region = ExampleRegion
    /\ doc.tf_service_account_name = ExampleServiceAccountName

\* ---- confirmExecution: which lines proceed
\* The line the operator typed, without its terminator.
WithoutTerminator(line) ==
    LET a == IF line # <<>> /\ line[Len(line)] = "\n"
             THEN SubSeq(line, 1, Len(line) - 1) ELSE line
    IN IF a # <<>> /\ a[Len(a)] = "\r" THEN SubSeq(a, 1, Len(a) - 1) ELSE a

Proceeded == ret["confirmExecution"] = "nil"

\* C12 as stated: the run continues to the provisioning steps exactly when
\* the line typed, compared without regard to case, is exactly "yes".
C12_ProceedsIffLineIsYes ==
    ret["confirmExecution"] # "none" =>
        (Proceeded <=> (ToLower(WithoutTerminator(input)) = Yes))

\* C12: the run continues to the provisioning steps exactly when the line
\* typed, with the white space around it removed and compared without regard
\* to case, is "yes"; "y", "yes please", "no", the empty line and end of input
\* end the run with status 0 before any step.
C12_ProceedsIffTrimmedLineIsYes ==
    ret["confirmExecution"] # "none" =>
        /\ Proceeded <=> (TrimSpace(ToLower(input)) = Yes)
        /\ Proceeded => (pc = "setProject" \/ ret["setProject"] # "none")
        /\ ~Proceeded =>
              /\ pc = "exited" /\ exitCode = 0
              /\ \A s \in StepSet : ret[s] = "none"
        /\ input \in {<<>>, <<"\n">>, <<"y", "\n">>, <<"n", "o", "\n">>,
                      <<"y", "e", "s", " ", "p", "l", "e", "a", "s", "e", "\n">>}
              => ~Proceeded
        /\ input \in {<<"y", "e", "s", "\n">>,
                      <<" ", "Y", "E", "s", " ", "\r", "\n">>} => Proceeded

C12_Witness ==
    /\ input = <<" ", "Y", "E", "s", " ", "\r", "\n">>
    /\ ret["setProject"] # "none"

\* ---- enableAPIs and the pause of createServiceAccount
Ran(step) == ret[step] # "none"

CallsOf(op) == {i \in DOMAIN calls : calls[i].op = op}

\* C13: enableAPIs returns success whether or not the enablement command
\* succeeded, so the run goes on to createServiceAccount; with an empty API
\* list no enablement command is issued, otherwise exactly one is.
C13_EnableAPIsNeverFatal ==
    Ran("enableAPIs") =>
        /\ ret["enableAPIs"] = "nil"
        /\ pc = "createServiceAccount" \/ Ran("createServiceAccount")
        /\ Cardinality(CallsOf("services.enable")) =
             (IF cfg.EnableAPIs = <<>> THEN 0 ELSE 1)
        /\ \A i \in CallsOf("services.enable") :
             calls[i].argv = <<"services", "enable">> \o cfg.EnableAPIs
                               \o <<"--project", cfg.ProjectID, "--async">>

C13_Witness ==
    /\ \E i \in CallsOf("services.enable") : ~calls[i].ok
    /\ Issued("sa.create")
    /\ completed

\* C14: a run pauses exactly once if it reaches createServiceAccount and not
\* at all otherwise; the pause lasts five seconds and falls after the
\* enablement step and immediately before the service-account create command.
C14_OnePauseBeforeCreate ==
    /\ Len(pauses) = (IF Ran("createServiceAccount") THEN 1 ELSE 0)
    /\ \A k \in DOMAIN pauses :
         /\ pauses[k].seconds = 5
         /\ ret["enableAPIs"] = "nil"
         /\ \A i \in CallsOf("services.enable") : i <= pauses[k].after
         /\ CallsOf("sa.create") = {pauses[k].after + 1}

C14_Witness ==
    /\ Len(pauses) = 1
    /\ Issued("services.enable")
    /\ Issued("sa.create")
    /\ completed

\* ---- createServiceAccount on an account that exists
\* C15: when the service account already exists as createServiceAccount runs,
\* so that the create command fails with the tool reporting the conflict, the
\* step returns success and the run goes on to grantIAMRoles.
C15_ExistingAccountIsSuccess ==
    \A i \in CallsOf("sa.create") :
        ConflictReported(calls[i]) =>
            /\ ret["createServiceAccount"] = "nil"
            /\ pc = "grantIAMRoles" \/ Ran("grantIAMRoles")

\* ---- the bucket checks
Fatal(step) == ret[step] = "err" /\ pc = "exited" /\ exitCode = 1

\* C16: a bucket existence check that fails with the tool saying "not found"
\* counts as "absent" and the create command follows it; one that fails in
\* any other way ends the run with no create command; a versioning check that
\* fails in any way, "not found" included, ends the run with no update command.
C16_BucketCheckFailures ==
    /\ \A i \in CallsOf("buckets.describe") :
         ~calls[i].ok =>
            IF Contains(calls[i].stderr, NotFound)
            THEN i < Len(calls) /\ calls[i + 1].op = "buckets.create"
            ELSE /\ i = Len(calls)
                 /\ Fatal("createBucket")
                 /\ ~Issued("buckets.create")
    /\ \A i \in CallsOf("versioning.describe") :
         ~calls[i].ok =>
            /\ i = Len(calls)
            /\ Fatal("enableBucketVersioning")
            /\ ~Issued("buckets.update")

C16_Witness ==
    /\ \E i \in CallsOf("buckets.describe") :
         ~calls[i].ok /\ Contains(calls[i].stderr, NotFound)
    /\ \E i \in CallsOf("buckets.create") : calls[i].ok
    /\ \E i \in CallsOf("versioning.describe") :
         ~calls[i].ok /\ Contains(calls[i].stderr, NotFound)

\* ---- linkBilling: when the link command is issued
\* The billing check answered, and named the configured account.
ReportsConfiguredAccount(c) ==
    /\ c.ok
    /\ TrimSpace(c.out) = <<"billingAccounts", "/", cfg.BillingAccountID>>

\* The failures of the billing check that isBillingLinked takes for "not linked".
ToleratedBillingCheckFailure(c) ==
    /\ ~c.ok
    /\ \/ Contains(c.stderr, MustBeAssociated)
       \/ Contains(c.stderr, NoPermission)
       \/ Contains(c.stderr, NotFound)

\* C17: linkBilling makes one billing check; the link command follows it
\* exactly when the check did not report the configured account: it is
\* skipped when the reported account is the configured one, and issued when
\* the project is unlinked, linked to another account, or the check failed,
\* tolerated failure or not.
C17_LinkIssuedUnlessLinked ==
    Ran("linkBilling") =>
        /\ Cardinality(CallsOf("billing.describe")) = 1
        /\ \A i \in CallsOf("billing.describe") :
             /\ Issued("billing.link") <=> ~ReportsConfiguredAccount(calls[i])
             /\ ReportsConfiguredAccount(calls[i]) => ret["linkBilling"] = "nil"
             /\ CallsOf("billing.link") \subseteq {i + 1}
             /\ ~calls[i].ok => Issued("billing.link")
             /\ (calls[i].ok /\ TrimSpace(calls[i].out) = <<>>) => Issued("billing.link")
             /\ (calls[i].ok /\ TrimSpace(calls[i].out)
                                  = <<"billingAccounts", "/", OtherAccount>>)
                   => Issued("billing.link")

C17_Witness ==
    /\ \E i \in CallsOf("billing.describe") :
         ~calls[i].ok /\ ~ToleratedBillingCheckFailure(calls[i])
    /\ \E i \in CallsOf("billing.link") : calls[i].ok
    /\ ret["linkBilling"] = "nil"

\* ---- generateSAKey: when the key-create command is issued
EarlierSteps(step) == {Steps[i] : i \in 1..(StepIndex[step] - 1)}

\* C18 as stated: the key-create command is issued exactly when the
\* key-generation flag is true and every earlier step returned without a
\* fatal error.
C18_KeyIssuedIffFlag ==
    Issued("keys.create") <=>
        (Ran("generateSAKey") /\ doc.generate_tf_sa_key)

\* C18: the key-create command is issued exactly when the key-generation
\* flag is true, every earlier step returned without a fatal error, and the
\* directory of the key file could be made; when making the directory fails
\* the step is fatal and issues no command.  With the flag false the step
\* issues no command, makes no directory, and the run completes.
C18_KeyIssuedIffFlagAndDirectory ==
    /\ Issued("keys.create") <=>
          (Ran("generateSAKey") /\ doc.generate_tf_sa_key /\ keyDirs = 1)
    /\ Ran("generateSAKey") =>
          \A s \in EarlierSteps("generateSAKey") \ {"grantIAMRoles"} : ret[s] = "nil"
    /\ (Ran("generateSAKey") /\ doc.generate_tf_sa_key /\ keyDirs = 0) =>
          Fatal("generateSAKey")
    /\ (Ran("generateSAKey") /\ ~doc.generate_tf_sa_key) =>
          /\ keyDirs = 0
          /\ ret["generateSAKey"] = "nil"
          /\ pc = "complete" \/ completed
    /\ ~Ran("generateSAKey") => keyDirs = 0

C18_Witness ==
    /\ \E i \in CallsOf("keys.create") : calls[i].ok
    /\ keyDirs = 1
    /\ completed

\* ---- createProject: when the create command is issued
\* The project listing answered with exactly the configured project id.
ReportsProject(c) == c.ok /\ TrimSpace(c.out) = <<cfg.ProjectID>>

\* C19: createProject makes one existence check; the create command follows
\* it exactly when the check did not answer with the project id itself.  An
\* empty answer and a failed check both count as "does not exist": the check
\* is never what makes the step fail.  The create command names the
\* organization exactly when an organization id is configured.
C19_CreateIssuedUnlessReported ==
    Ran("createProject") =>
        /\ Cardinality(CallsOf("projects.list")) = 1
        /\ \A i \in CallsOf("projects.list") :
             /\ Issued("projects.create") <=> ~ReportsProject(calls[i])
             /\ ReportsProject(calls[i]) => ret["createProject"] = "nil"
             /\ CallsOf("projects.create") \subseteq {i + 1}
             /\ ~calls[i].ok => Issued("projects.create")
        /\ ret["createProject"] = "err" =>
             \E j \in CallsOf("projects.create") : ~calls[j].ok
        /\ \A j \in CallsOf("projects.create") :
             /\ SubSeq(calls[j].argv, 1, 4 + Len(cfg.ProjectName)) =
                  <<"projects", "create", cfg.ProjectID, "--name">> \o cfg.ProjectName
             /\ IF cfg.OrganizationID # ""
                THEN SubSeq(calls[j].argv, 5 + Len(cfg.ProjectName),
                            Len(calls[j].argv))
                       = <<"--organization", cfg.OrganizationID>>
                ELSE /\ Len(calls[j].argv) = 4 + Len(cfg.ProjectName)
                     /\ ~Contains(calls[j].argv, <<"--organization">>)

C19_Witness ==
    /\ \E i \in CallsOf("projects.list") : ~calls[i].ok
    /\ \E j \in CallsOf("projects.create") :
         calls[j].ok /\ Contains(calls[j].argv, <<"--organization", "123456789012">>)
    /\ ret["createProject"] = "nil"

\* ---- what a successful completion implies
\* The words a step looks for in the error of its mutating command before it
\* takes the failure for a conflict; the versioning update has none.
ConflictSentinel(op) ==
    CASE op = "billing.link" -> AlreadyAssociated
      [] op \in {"projects.create", "sa.create", "buckets.create"} -> AlreadyExists

\* The step took the failure of its mutating command for a conflict.
ToleratedAsConflict(c) ==
    /\ ~c.ok
    /\ c.op \in {"projects.create", "billing.link", "sa.create", "buckets.create"}
    /\ Contains(runCommand(c.argv, c), ConflictSentinel(c.op))

\* The step of mutating command op left its target satisfied: its check
\* showed the target state, or its mutating command succeeded, or the
\* failure of that command was taken for a conflict.
SatisfiedBy(op) ==
    \/ op \in CheckedMutatingOps /\ \E i \in CallsOf(QueryOf(op)) : ShowsSatisfied(calls[i])
    \/ \E j \in CallsOf(op) : calls[j].ok
    \/ \E j \in CallsOf(op) : ToleratedAsConflict(calls[j])

\* C20: when the run prints the completion message, the project, the billing
\* link, the service account, the bucket and the bucket versioning have each
\* been satisfied in that run: the check showed the target state, or the
\* mutating command succeeded, or its failure was taken for a conflict.
\* (That a run can complete with the API enablement and grants failed is what
\* the witness shows.)
C20_CompletionImpliesStructure ==
    completed => \A op \in StructuralMutatingOps : SatisfiedBy(op)

C20_Witness ==
    /\ completed
    /\ \E i \in CallsOf("services.enable") : ~calls[i].ok
    /\ \A i \in DOMAIN calls : IsGrant(calls[i]) => ~calls[i].ok
    /\ \E i \in CallsOf("billing.grant") : ~calls[i].ok
    /\ \E i \in CallsOf("projects.create") : calls[i].ok
    /\ \E i \in CallsOf("buckets.create") : calls[i].ok

\* ---- checkGcloud: the prerequisite gate
\* The authentication query failed, or answered with no active account.
NoActiveAccount(c) == ~c.ok \/ TrimSpace(c.out) = <<>>

\* C21: when the gcloud tool is not found (checkGcloud ends without any
\* command), or the authentication query fails or reports no active account,
\* the run ends with status 1 before the configuration is loaded and before
\* the prompt; it has issued no mutating command, and at most the one
\* read-only authentication query.  Conversely a run gets past the gate only
\* after a query that succeeded and named an account.
C21_PrerequisiteGate ==
    Ran("checkGcloud") =>
        /\ calls # <<>> /\ calls[1].op = "auth.list" => CallsOf("auth.list") = {1}
        /\ (calls = <<>> \/ (calls[1].op = "auth.list" /\ NoActiveAccount(calls[1])))
              <=> ret["checkGcloud"] = "err"
        /\ ret["checkGcloud"] = "err" =>
              /\ pc = "exited" /\ exitCode = 1
              /\ ~completed
              /\ ~cfg.loaded /\ loadResult = NotLoaded
              /\ input = NoInput
              /\ \A s \in (Gates \cup StepSet) \ {"checkGcloud"} : ret[s] = "none"
              /\ Len(calls) <= 1
              /\ \A i \in DOMAIN calls :
                   calls[i].op = "auth.list" /\ calls[i].op \notin MutatingOps
        /\ ret["checkGcloud"] = "nil" =>
              calls # <<>> /\ calls[1].op = "auth.list" /\ ~NoActiveAccount(calls[1])

C21_Witness ==
    /\ ret["checkGcloud"] = "err"
    /\ pc = "exited"
    /\ Len(calls) = 1
    /\ calls[1].ok
    /\ TrimSpace(calls[1].out) = <<>>

====
